---- MODULE Spec2Model ----
(***************************************************************************)
(* Verification model of the extraction / deduplication pipeline of the    *)
(* automation platform: Deduplicator (modules/deduplicator.py), Database   *)
(* (modules/database.py, init_db.py) and AutomationEngine (engine.py).     *)
(*                                                                         *)
(* Strings are sequences of character codes (the Unicode code points), so  *)
(* that Python's str ordering, strip() and join() are computed as the code *)
(* computes them.  A dict is the sequence of its (key, value) items in     *)
(* insertion order, keys pairwise different.                               *)
(***************************************************************************)
EXTENDS Integers, Sequences, FiniteSets, TLC

VARIABLES
    h_in,            \* generate_hash harness: the record handed to generate_hash
    h_other,         \* generate_hash harness: a second record, compared with h_in
    h_out,           \* generate_hash harness: the hashes returned for h_in / h_other
    extracted_data,  \* table extracted_data: the set of its rows
    api,             \* Deduplicator/Database API harness: the last calls and their results
    jobs,            \* table jobs: job id -> configuration
    execution_log,   \* table execution_log: log id -> row
    page,            \* the records the watched page shows, in page order
    telegram,        \* the set of send_message calls made: job, record, success
    runs,            \* the calls of AutomationEngine.execute_job, in the order they began
    progress,        \* app._job_progress: what GET /api/progress returns
    act,             \* execute_actions harness: the action list and the state of one call
    csv,             \* _execute_csv_job harness: the state of one CSV-analysis run
    fmt,             \* format_message harness: data, template and the message returned
    pag,             \* Paginator harness: the state of one scroll_and_extract / paginate_and_extract call
    txt,             \* _deduplicate_text harness: the value handed over and the value returned
    nav,             \* DOM job harness: the browser, the DOMExtractor and the runs of one engine
    sch              \* scheduler harness: the active flags, the scheduled jobs and the ticks

hashVars == <<h_in, h_other, h_out>>
engineVars == <<jobs, execution_log, page, telegram, runs, progress>>
moreVars == <<pag, txt, nav, sch>>
unitVars == <<act, csv, fmt, moreVars>>
nonHashVars == <<extracted_data, api, engineVars, unitVars>>
vars == <<h_in, h_other, h_out, extracted_data, api, jobs, execution_log, page, telegram, runs, progress, act, csv, fmt, pag, txt, nav, sch>>

----------------------------------------------------------------------------
(* Bounds of the model *)

\* largest number of fields of a record handed to generate_hash
MaxFields == 2

\* number of job ids the API harness calls with
MaxJobs == 2

\* number of calls made by the API harness
MaxCalls == 3

\* number of execute_job calls (scheduler ticks and manual triggers)
MaxRuns == 2

\* largest number of pre-extraction actions of a job
MaxActions == 3

\* largest length of a message template
MaxTemplate == 4

\* largest number of records one extraction returns
MaxItems == 2

----------------------------------------------------------------------------
(* Python strings *)

SP == 32
COLON == 58
USCORE == 95
CH_a == 97
CH_b == 98
PIPE == 124

\* the value None (no string holds the code -1)
None == <<-1>>

\* whitespace as str.strip() understands it (space is the one in the alphabet)
IsSpace(c) == c = SP

RECURSIVE LStrip(_)
LStrip(s) ==
    IF s = <<>> THEN <<>>
    ELSE IF IsSpace(s[1]) THEN LStrip(Tail(s)) ELSE s

RECURSIVE RStrip(_)
RStrip(s) ==
    IF s = <<>> THEN <<>>
    ELSE IF IsSpace(s[Len(s)]) THEN RStrip(SubSeq(s, 1, Len(s) - 1)) ELSE s

\* str.strip()
Strip(s) == RStrip(LStrip(s))

\* Python's < on str: lexicographic by code point
RECURSIVE StrLess(_, _)
StrLess(s, t) ==
    IF t = <<>> THEN FALSE
    ELSE IF s = <<>> THEN TRUE
    ELSE IF s[1] # t[1] THEN s[1] < t[1]
    ELSE StrLess(Tail(s), Tail(t))

\* k.startswith('_')
StartsWithUnderscore(k) == k # <<>> /\ k[1] = USCORE

\* sep.join(parts)
RECURSIVE Join(_, _)
Join(sep, parts) ==
    IF parts = <<>> THEN <<>>
    ELSE IF Len(parts) = 1 THEN parts[1]
    ELSE parts[1] \o sep \o Join(sep, Tail(parts))

----------------------------------------------------------------------------
(* Deduplicator.generate_hash *)

\* hashlib.md5(bytes).hexdigest(): the digest is determined by the bytes;
\* MD5 collisions between different byte strings are not modelled
Md5(bytes) == <<0>> \o bytes

\* b"empty"
EmptyBytes == <<101, 109, 112, 116, 121>>

\* a plausible slip: the emptiness test made without strip()
KeepField_nostrip(item) ==
    /\ item[2] # None
    /\ item[2] # <<>>
    /\ ~StartsWithUnderscore(item[1])

\* a plausible slip: the metadata fields hashed with the others
KeepField_withmeta(item) ==
    /\ item[2] # None
    /\ Strip(item[2]) # <<>>

\* the filter of the dict comprehension: v is not None and str(v).strip()
\* and not k.startswith('_')
KeepField(item) ==
    /\ item[2] # None
    /\ Strip(item[2]) # <<>>
    /\ ~StartsWithUnderscore(item[1])

\* clean_data = {k: str(v).strip() for k, v in data.items() if ...}
RECURSIVE CleanData(_)
CleanData(data) ==
    IF data = <<>> THEN <<>>
    ELSE IF KeepField(data[1])
         THEN <<<<data[1][1], Strip(data[1][2])>>>> \o CleanData(Tail(data))
         ELSE CleanData(Tail(data))

\* sorted(clean_data.items()): the keys differ, so the order is the keys' order
RECURSIVE SortedItems(_)
SortedItems(items) ==
    IF items = <<>> THEN <<>>
    ELSE LET m == CHOOSE i \in 1..Len(items) :
                      \A j \in 1..Len(items) : j = i \/ StrLess(items[i][1], items[j][1])
             rest == [j \in 1..(Len(items) - 1) |-> IF j < m THEN items[j] ELSE items[j + 1]]
         IN  <<items[m]>> \o SortedItems(rest)

\* content = "|".join(f"{k}:{v}" for k, v in sorted_items)
ContentString(sorted_items) ==
    Join(<<PIPE>>, [i \in 1..Len(sorted_items) |->
                        sorted_items[i][1] \o <<COLON>> \o sorted_items[i][2]])

\* a plausible slip: the content string built without sorting the items
GenerateHash_unsorted(data) ==
    LET clean_data == CleanData(data)
    IN  IF clean_data = <<>> THEN Md5(EmptyBytes)
        ELSE Md5(ContentString(clean_data))

GenerateHash(data) ==
    LET clean_data == CleanData(data)
    IN  IF clean_data = <<>> THEN Md5(EmptyBytes)
        ELSE Md5(ContentString(SortedItems(clean_data)))

----------------------------------------------------------------------------
(* Database: table extracted_data *)

JobIds == 1..MaxJobs

\* SELECT 1 FROM extracted_data WHERE hash = ? LIMIT 1: a plausible slip,
\* the lookup made without the job
IsDuplicate_anyjob(table, job_id, data_hash) ==
    \E row \in table : row.hash = data_hash

\* SELECT 1 FROM extracted_data WHERE job_id = ? AND hash = ? LIMIT 1
IsDuplicate(table, job_id, data_hash) ==
    \E row \in table : row.job_id = job_id /\ row.hash = data_hash

\* UNIQUE(job_id, hash): would the INSERT raise sqlite3.IntegrityError
UniqueViolated(table, job_id, data_hash) ==
    \E row \in table : row.job_id = job_id /\ row.hash = data_hash

\* id INTEGER PRIMARY KEY AUTOINCREMENT (the model deletes no row)
NextRowId(table) == Cardinality(table) + 1

NewRow(table, job_id, data, data_hash) ==
    [id |-> NextRowId(table), job_id |-> job_id, hash |-> data_hash, data |-> data,
     sent_to_telegram |-> 0]

\* a plausible slip: the table declared without UNIQUE(job_id, hash)
StoreExtractedData_nounique(table, job_id, data, data_hash) ==
    [table |-> table \cup {NewRow(table, job_id, data, data_hash)},
     record_id |-> NextRowId(table)]

\* a plausible slip: the id returned without the row being written
StoreExtractedData_nostore(table, job_id, data, data_hash) ==
    IF UniqueViolated(table, job_id, data_hash)
    THEN [table |-> table, record_id |-> -1]
    ELSE [table |-> table, record_id |-> NextRowId(table)]

\* Database.store_extracted_data: the table after the call and the value
\* returned (the new id, or -1 when the INSERT raised IntegrityError)
StoreExtractedData(table, job_id, data, data_hash) ==
    IF UniqueViolated(table, job_id, data_hash)
    THEN [table |-> table, record_id |-> -1]
    ELSE [table |-> table \cup {NewRow(table, job_id, data, data_hash)},
          record_id |-> NextRowId(table)]

\* UPDATE extracted_data SET sent_to_telegram = 1 ... WHERE id = ?
MarkSentToTelegram(table, record_id) ==
    { IF row.id = record_id THEN [row EXCEPT !.sent_to_telegram = 1] ELSE row : row \in table }

DbInit == extracted_data = {}

----------------------------------------------------------------------------
(* Database: table execution_log *)

\* Database.start_execution_log: the table after the INSERT; the new log id
\* is the length of the table
StartExecutionLog(log, job_id) ==
    Append(log, [job_id |-> job_id, status |-> "running", items_extracted |-> 0,
                 items_new |-> 0, items_duplicate |-> 0, items_sent |-> 0,
                 error_message |-> "NULL"])

\* status TEXT CHECK(status IN ('running', 'success', 'partial', 'failed'))
StatusAllowed == {"running", "success", "partial", "failed"}

\* Database.complete_execution_log: the table after the UPDATE
CompleteExecutionLog(log, log_id, status, items_extracted, items_new, items_duplicate, items_sent, error_message) ==
    [log EXCEPT ![log_id] = [@ EXCEPT !.status = status,
                                      !.items_extracted = items_extracted,
                                      !.items_new = items_new,
                                      !.items_duplicate = items_duplicate,
                                      !.items_sent = items_sent,
                                      !.error_message = error_message]]

\* a plausible slip: the failed entry written without its error message
CompleteFailed_nomessage(log, log_id, error_message) ==
    CompleteExecutionLog(log, log_id, "failed", 0, 0, 0, 0, "NULL")

\* complete_execution_log(log_id=log_id, status='failed', error_message=str(e)):
\* the counts take their defaults, 0
CompleteFailed(log, log_id, error_message) ==
    CompleteExecutionLog(log, log_id, "failed", 0, 0, 0, 0, error_message)

----------------------------------------------------------------------------
(* Deduplicator.process_item / store_and_mark *)

\* a plausible slip: the result of the duplicate lookup not used
ProcessItem_nolookup(table, job_id, extracted) ==
    [is_new |-> TRUE, hash |-> GenerateHash(extracted), should_send |-> TRUE, data |-> extracted]

\* the dict returned by process_item
ProcessItem(table, job_id, extracted) ==
    LET data_hash == GenerateHash(extracted)
        is_dup == IsDuplicate(table, job_id, data_hash)
    IN  [is_new |-> ~is_dup, hash |-> data_hash, should_send |-> ~is_dup, data |-> extracted]

\* a plausible slip: the new record not written to the table
StoreAndMark_nostore(table, job_id, result) ==
    IF ~result.is_new
    THEN [table |-> table, record_id |-> -1]
    ELSE [table |-> table, record_id |-> NextRowId(table)]

\* Deduplicator.store_and_mark: the table after the call and the value returned
StoreAndMark(table, job_id, result) ==
    IF ~result.is_new
    THEN [table |-> table, record_id |-> -1]
    ELSE StoreExtractedData(table, job_id, result.data, result.hash)

----------------------------------------------------------------------------
(* Records handed to generate_hash *)

\* field names: "a", "a:", "b", and the metadata key "_a"
Keys == { <<CH_a>>, <<CH_a, COLON>>, <<CH_b>>, <<USCORE, CH_a>> }

\* field values: None, "", " ", "a", " a", ":a", "a|b:a"
Values == { None, <<>>, <<SP>>, <<CH_a>>, <<SP, CH_a>>, <<COLON, CH_a>>,
            <<CH_a, PIPE, CH_b, COLON, CH_a>> }

\* a dict: items in insertion order, keys pairwise different
IsDict(d) == \A i, j \in 1..Len(d) : i # j => d[i][1] # d[j][1]

DictsOfLen(n) == { d \in [1..n -> Keys \X Values] : IsDict(d) }

RecordSpace == UNION { DictsOfLen(n) : n \in 0..MaxFields }

\* the orders in which the items of d can be inserted
Reorderings(d) ==
    { [i \in 1..Len(d) |-> d[p[i]]] :
        p \in { q \in [1..Len(d) -> 1..Len(d)] : \A i, j \in 1..Len(d) : i # j => q[i] # q[j] } }

\* d with item inserted at position i (1..Len(d)+1)
InsertAt(d, i, item) ==
    [j \in 1..(Len(d) + 1) |-> IF j < i THEN d[j] ELSE IF j = i THEN item ELSE d[j - 1]]

\* d without the item at position i
RemoveAt(d, i) ==
    [j \in 1..(Len(d) - 1) |-> IF j < i THEN d[j] ELSE d[j + 1]]

\* a value that is None, empty or only whitespace
IsBlank(v) == v = None \/ \A i \in 1..Len(v) : v[i] = SP

\* the non-metadata, non-empty (key, stripped value) pairs of a record
SemanticPairs(d) ==
    { <<d[i][1], Strip(d[i][2])>> :
        i \in { j \in 1..Len(d) : ~IsBlank(d[j][2]) /\ d[j][1][1] # USCORE } }

(* ---- the generate_hash harness ---- *)

\* no call of execute_actions
ActIdle == act = [pc |-> "idle", actions |-> <<>>, i |-> 0, results |-> <<>>, failed |-> FALSE]

\* no CSV-analysis run
CsvIdle == csv = [pc |-> "idle"]

\* no call of format_message
FmtIdle == fmt = [pc |-> "idle"]

\* no call of the paginator
PagIdle == pag = [pc |-> "idle"]

\* no call of _deduplicate_text
TxtIdle == txt = [pc |-> "idle"]

\* no DOM job run, no browser looked at
NavIdle == nav = [pc |-> "idle"]

\* no scheduler
SchIdle == sch = [pc |-> "idle"]

\* the harnesses of the smaller units stay idle
UnitIdle == ActIdle /\ CsvIdle /\ FmtIdle /\ PagIdle /\ TxtIdle /\ NavIdle /\ SchIdle

\* app._job_progress as the module defines it: nothing running, no job
\* (job id 0), all counts zero
NoProgress == [running |-> FALSE, job_id |-> 0, items_extracted |-> 0, items_sent |-> 0, items_duplicate |-> 0]

\* start_progress(job_id, job_name)
StartProgress(job_id) == [running |-> TRUE, job_id |-> job_id, items_extracted |-> 0, items_sent |-> 0, items_duplicate |-> 0]

\* a progress callback that drops the counts handed to it
UpdateProgress_dropped(p, kwargs) == p

\* update_progress(step, step_number, **kwargs): the keyword arguments that
\* are keys of _job_progress are written into it
UpdateProgress(p, kwargs) == [key \in DOMAIN p |-> IF key \in DOMAIN kwargs THEN kwargs[key] ELSE p[key]]

\* end_progress(success, error)
EndProgress(p) == [p EXCEPT !.running = FALSE]

\* the engine of the other specifications stays idle
EngineIdle ==
    /\ jobs = <<>>
    /\ execution_log = <<>>
    /\ page = <<>>
    /\ telegram = {}
    /\ runs = <<>>
    /\ progress = NoProgress

NoHashes == [called |-> FALSE, a |-> <<>>, b |-> <<>>]

\* no process_item result yet (no hash is the empty string)
NoResult == [is_new |-> FALSE, hash |-> <<>>, should_send |-> FALSE, data |-> <<>>]

\* the API harness before its first call
NoCalls == [n |-> 0, op |-> "none", job_id |-> 0, result |-> NoResult,
            hash |-> <<>>, ret |-> 0, seen |-> {}]

HashInit ==
    /\ h_in \in RecordSpace
    /\ h_other = h_in
    /\ h_out = NoHashes
    /\ DbInit
    /\ api = NoCalls
    /\ EngineIdle
    /\ UnitIdle

\* the harnesses of the other specifications stay idle
HashIdle ==
    /\ h_in = <<>>
    /\ h_other = <<>>
    /\ h_out = NoHashes

\* the caller builds the same dict with its keys in another order
ShuffleKeys ==
    /\ ~h_out.called
    /\ h_other = h_in
    /\ h_other' \in Reorderings(h_in) \ {h_in}
    /\ UNCHANGED <<h_in, h_out, nonHashVars>>

\* the caller adds a key whose value is None, empty or whitespace
AddBlankKey ==
    /\ ~h_out.called
    /\ h_other = h_in
    /\ Len(h_in) < MaxFields
    /\ \E i \in 1..(Len(h_in) + 1), k \in Keys, v \in Values :
          /\ IsBlank(v)
          /\ \A j \in 1..Len(h_in) : h_in[j][1] # k
          /\ h_other' = InsertAt(h_in, i, <<k, v>>)
    /\ UNCHANGED <<h_in, h_out, nonHashVars>>

\* the caller removes a key whose value is None, empty or whitespace
RemoveBlankKey ==
    /\ ~h_out.called
    /\ h_other = h_in
    /\ \E i \in 1..Len(h_in) :
          /\ IsBlank(h_in[i][2])
          /\ h_other' = RemoveAt(h_in, i)
    /\ UNCHANGED <<h_in, h_out, nonHashVars>>

\* generate_hash is called on both records
CallGenerateHash ==
    /\ ~h_out.called
    /\ h_out' = [called |-> TRUE, a |-> GenerateHash(h_in), b |-> GenerateHash(h_other)]
    /\ UNCHANGED <<h_in, h_other, nonHashVars>>

HashNext == ShuffleKeys \/ AddBlankKey \/ RemoveBlankKey \/ CallGenerateHash

SpecHash == HashInit /\ [][HashNext]_vars

\* two arbitrary records
PairInit ==
    /\ h_in \in RecordSpace
    /\ h_other \in RecordSpace
    /\ h_out = NoHashes
    /\ DbInit
    /\ api = NoCalls
    /\ EngineIdle
    /\ UnitIdle

PairNext == CallGenerateHash

SpecPair == PairInit /\ [][PairNext]_vars

----------------------------------------------------------------------------
(* The Deduplicator / Database API driven call by call, as test_deduplication *)
(* and test_database drive it                                                *)

\* {"a": "a", "b": "a"}
RecAB == << <<<<CH_a>>, <<CH_a>>>>, <<<<CH_b>>, <<CH_a>>>> >>

\* {"b": " a", "_a": "a", "a": "a"}: RecAB in another key order, with a
\* metadata field and surrounding whitespace
RecBA == << <<<<CH_b>>, <<SP, CH_a>>>>, <<<<USCORE, CH_a>>, <<CH_a>>>>, <<<<CH_a>>, <<CH_a>>>> >>

\* {"a": "a|b:a"}
RecPipe == << <<<<CH_a>>, <<CH_a, PIPE, CH_b, COLON, CH_a>>>> >>

\* {"b": "a"}
RecB == << <<<<CH_b>>, <<CH_a>>>> >>

SampleRecords == {RecAB, RecBA, RecPipe, RecB}

DedupInit ==
    /\ HashIdle
    /\ DbInit
    /\ api = NoCalls
    /\ EngineIdle
    /\ UnitIdle

\* result = dedup.process_item(job_id, data)
CallProcessItem(job_id, data) ==
    /\ api.n < MaxCalls
    /\ api' = [api EXCEPT !.n = @ + 1, !.op = "process_item", !.job_id = job_id,
                          !.result = ProcessItem(extracted_data, job_id, data),
                          !.seen = @ \cup {<<job_id, SemanticPairs(data)>>}]
    /\ UNCHANGED <<hashVars, unitVars, extracted_data, engineVars>>

\* dedup.store_and_mark(job_id, result), result being the last process_item result
CallStoreAndMark(job_id) ==
    /\ api.n < MaxCalls
    /\ api.result # NoResult
    /\ LET r == StoreAndMark(extracted_data, job_id, api.result)
       IN  /\ extracted_data' = r.table
           /\ api' = [api EXCEPT !.n = @ + 1, !.op = "store_and_mark", !.job_id = job_id,
                                 !.hash = api.result.hash, !.ret = r.record_id]
    /\ UNCHANGED <<hashVars, unitVars, engineVars>>

\* db.store_extracted_data(job_id, data, dedup.generate_hash(data))
CallStoreExtractedData(job_id, data) ==
    /\ api.n < MaxCalls
    /\ LET r == StoreExtractedData(extracted_data, job_id, data, GenerateHash(data))
       IN  /\ extracted_data' = r.table
           /\ api' = [api EXCEPT !.n = @ + 1, !.op = "store_extracted_data",
                                 !.job_id = job_id, !.hash = GenerateHash(data),
                                 !.ret = r.record_id]
    /\ UNCHANGED <<hashVars, unitVars, engineVars>>

DedupNext ==
    \/ \E job_id \in JobIds, data \in SampleRecords : CallProcessItem(job_id, data)
    \/ \E job_id \in JobIds : CallStoreAndMark(job_id)
    \/ \E job_id \in JobIds, data \in SampleRecords : CallStoreExtractedData(job_id, data)

SpecDedup == DedupInit /\ [][DedupNext]_vars

----------------------------------------------------------------------------
(* AutomationEngine.execute_job *)

\* {"a": ""}: a record whose one field is empty
RecEmpty == << <<<<CH_a>>, <<>>>> >>

\* the records an extraction can return
EngineRecords == {RecBA, RecEmpty}

\* the lists of records an extraction can return
PageContents == UNION { [1..n -> EngineRecords] : n \in 0..MaxItems }

\* the jobs table: per job its job_type, enable_deduplication, and whether
\* telegram_bot_token, telegram_chat_id and format_template are all set
EngineJobs ==
    << [job_type |-> "dom_extraction", enable_deduplication |-> TRUE, telegram |-> TRUE],
       [job_type |-> "ocr_extraction", enable_deduplication |-> FALSE, telegram |-> TRUE] >>

EngineInit ==
    /\ HashIdle
    /\ DbInit
    /\ api = NoCalls
    /\ jobs = EngineJobs
    /\ execution_log = <<>>
    /\ page \in PageContents
    /\ telegram = {}
    /\ runs = <<>>
    /\ progress = NoProgress
    /\ UnitIdle

\* not v, for a field value v
Falsy(v) == v = None \/ v = <<>>

\* clean_data = {k: v for k, v in data.items() if not k.startswith('_')}
RECURSIVE StripMetadata(_)
StripMetadata(data) ==
    IF data = <<>> THEN <<>>
    ELSE IF StartsWithUnderscore(data[1][1]) THEN StripMetadata(Tail(data))
    ELSE <<data[1]>> \o StripMetadata(Tail(data))

\* the record the loop works on: the OCR loop strips the metadata fields,
\* the DOM loop takes the record as extracted
LoopData(job, data) ==
    IF job.job_type = "ocr_extraction" THEN StripMetadata(data) ELSE data

\* not data or all(not v for v in data.values())
IsEmptyDataPoint(data) == \A k \in 1..Len(data) : Falsy(data[k][2])

Job(r) == jobs[runs[r].job_id]

\* the record under the loop index of run r
CurrentData(r) == LoopData(Job(r), runs[r].all_data[runs[r].i])

\* the runs that have returned or raised
Ended == { r \in 1..Len(runs) : runs[r].pc \in {"done", "raised"} }

\* run r was started by /api/run-job, which hands update_progress to the
\* engine, and runs _execute_dom_job, the one job body that calls
\* _update_progress
Reports(r) == runs[r].trigger = "manual" /\ Job(r).job_type = "dom_extraction"

\* self._update_progress(step, step_number, **kwargs)
Report(r, kwargs) == IF Reports(r) THEN UpdateProgress(progress, kwargs) ELSE progress

\* execute_job has returned or raised: api_run_job calls end_progress
Returned(r) == IF runs[r].trigger = "manual" THEN EndProgress(progress) ELSE progress

\* execute_job: db.get_job, then log_id = db.start_execution_log(job_id); the
\* run remembers what called execute_job and which runs had ended by then
StartRun(job_id, trigger) ==
    /\ Len(runs) < MaxRuns
    /\ execution_log' = StartExecutionLog(execution_log, job_id)
    /\ runs' = Append(runs, [job_id |-> job_id, pc |-> "setup",
                             log_id |-> Len(execution_log) + 1, after |-> Ended,
                             all_data |-> <<>>, i |-> 1, new_count |-> 0,
                             dup_count |-> 0, sent_count |-> 0, result |-> NoResult,
                             record_id |-> 0, error |-> "NULL",
                             extracted |-> -1, fault |-> FALSE, trigger |-> trigger])
    /\ progress' = IF trigger = "manual" THEN StartProgress(job_id) ELSE progress
    /\ UNCHANGED <<hashVars, unitVars, extracted_data, api, jobs, page, telegram>>

\* the scheduler calls execute_job, every run having ended before the next begins
BeginRun(job_id) ==
    /\ Ended = 1..Len(runs)
    /\ StartRun(job_id, "scheduler")

\* the steps before the extraction: the OCR job focuses the browser and runs
\* the pre-extraction actions; the DOM job connects to the browser (raising
\* RuntimeError when connect_to_browser returns False) and runs the actions
Setup(r) ==
    /\ runs[r].pc = "setup"
    /\ \E ok \in BOOLEAN :
          runs' = [runs EXCEPT ![r] =
                     IF ok THEN [@ EXCEPT !.pc = "extract"]
                     ELSE [@ EXCEPT !.pc = "except", !.fault = TRUE,
                                    !.error = IF Job(r).job_type = "dom_extraction"
                                              THEN "Failed to connect to browser"
                                              ELSE "Exception"]]
    /\ UNCHANGED <<hashVars, unitVars, extracted_data, api, jobs, execution_log, page, telegram, progress>>

\* the extraction returns the records of the page, or raises
Extract(r) ==
    /\ runs[r].pc = "extract"
    /\ \/ /\ ~(Job(r).job_type = "dom_extraction" /\ page = <<>>)
          /\ runs' = [runs EXCEPT ![r] = [@ EXCEPT !.pc = "classify", !.all_data = page,
                                                   !.extracted = Len(page)]]
          /\ progress' = Report(r, [items_extracted |-> Len(page)])
       \/ /\ runs' = [runs EXCEPT ![r] = [@ EXCEPT !.pc = "except", !.error = "Exception",
                                                   !.fault = TRUE]]
          /\ UNCHANGED progress
    /\ UNCHANGED <<hashVars, unitVars, extracted_data, api, jobs, execution_log, page, telegram>>

\* the DOM extraction returns no item: the job completes the log as failed
\* and raises RuntimeError
ExtractNothing(r) ==
    /\ runs[r].pc = "extract"
    /\ Job(r).job_type = "dom_extraction"
    /\ page = <<>>
    /\ \/ /\ execution_log' = CompleteFailed(execution_log, runs[r].log_id,
                    "Extraction returned 0 items - check selectors and pre-actions")
          /\ runs' = [runs EXCEPT ![r] = [@ EXCEPT !.pc = "except", !.extracted = 0,
                          !.error = "Extraction validation failed: 0 items extracted"]]
       \/ \* complete_execution_log raises
          /\ runs' = [runs EXCEPT ![r] = [@ EXCEPT !.pc = "except", !.extracted = 0,
                                                   !.error = "Exception", !.fault = TRUE]]
          /\ UNCHANGED execution_log
    /\ progress' = Report(r, [items_extracted |-> 0])
    /\ UNCHANGED <<hashVars, unitVars, extracted_data, api, jobs, page, telegram>>

\* execute_job has returned (or raised): the locals of the call are gone
EndRun(run, pc) ==
    [run EXCEPT !.pc = pc, !.i = 1, !.new_count = 0, !.dup_count = 0, !.sent_count = 0,
                !.result = NoResult, !.record_id = 0, !.error = "NULL"]

\* the run with its loop index moved to the next record
NextItem(run) == [run EXCEPT !.i = @ + 1, !.pc = "classify"]

\* the head of the loop body: the empty data point is skipped; with
\* deduplication the record is classified and a duplicate is counted
Classify(r) ==
    /\ runs[r].pc = "classify"
    /\ runs[r].i <= Len(runs[r].all_data)
    /\ LET data == CurrentData(r)
           result == ProcessItem(extracted_data, runs[r].job_id, data)
       IN  runs' = [runs EXCEPT ![r] =
                      IF IsEmptyDataPoint(data) THEN NextItem(@)
                      ELSE IF ~Job(r).enable_deduplication THEN [@ EXCEPT !.pc = "store"]
                      ELSE IF ~result.is_new
                           THEN NextItem([@ EXCEPT !.dup_count = @ + 1])
                           ELSE [@ EXCEPT !.pc = "store", !.result = result]]
    /\ progress' = Report(r, [items_sent |-> runs'[r].sent_count, items_duplicate |-> runs'[r].dup_count])
    /\ UNCHANGED <<hashVars, unitVars, extracted_data, api, jobs, execution_log, page, telegram>>

\* the record is stored (store_and_mark, or store_extracted_data without
\* deduplication) and counted new; the INSERT may raise
Store(r) ==
    /\ runs[r].pc = "store"
    /\ LET data == CurrentData(r)
           stored == IF Job(r).enable_deduplication
                     THEN StoreAndMark(extracted_data, runs[r].job_id, runs[r].result)
                     ELSE StoreExtractedData(extracted_data, runs[r].job_id, data,
                                             GenerateHash(data))
       IN  \/ /\ extracted_data' = stored.table
              /\ runs' = [runs EXCEPT ![r] =
                            [@ EXCEPT !.record_id = stored.record_id,
                                      !.new_count = @ + 1,
                                      !.pc = IF Job(r).telegram THEN "send" ELSE "classify",
                                      !.i = IF Job(r).telegram THEN @ ELSE @ + 1]]
           \/ /\ runs' = [runs EXCEPT ![r] = [@ EXCEPT !.pc = "except", !.error = "Exception",
                                                        !.fault = TRUE]]
              /\ UNCHANGED extracted_data
    /\ UNCHANGED <<hashVars, unitVars, api, jobs, execution_log, page, telegram, progress>>

\* telegram.send_message(chat_id, message) for the record under the loop index
\* of run r: the job, the hash of the record, the id store returned for it, and
\* whether the call returned success
SendCall(r, success) ==
    [job_id |-> runs[r].job_id, hash |-> GenerateHash(CurrentData(r)),
     record_id |-> runs[r].record_id, success |-> success]

\* the message is sent; on success it is counted and the row is marked,
\* which may raise
Send(r) ==
    /\ runs[r].pc = "send"
    /\ \/ \* send_result['success']
          /\ telegram' = telegram \cup {SendCall(r, TRUE)}
          /\ extracted_data' = MarkSentToTelegram(extracted_data, runs[r].record_id)
          /\ runs' = [runs EXCEPT ![r] = NextItem([@ EXCEPT !.sent_count = @ + 1])]
          /\ progress' = Report(r, [items_sent |-> runs[r].sent_count + 1])
       \/ \* the send fails
          /\ telegram' = telegram \cup {SendCall(r, FALSE)}
          /\ runs' = [runs EXCEPT ![r] = NextItem(@)]
          /\ UNCHANGED <<extracted_data, progress>>
       \/ \* mark_sent_to_telegram raises
          /\ telegram' = telegram \cup {SendCall(r, TRUE)}
          /\ runs' = [runs EXCEPT ![r] = [@ EXCEPT !.sent_count = @ + 1, !.fault = TRUE,
                                                   !.pc = "except", !.error = "Exception"]]
          /\ UNCHANGED <<extracted_data, progress>>
    /\ UNCHANGED <<hashVars, unitVars, api, jobs, execution_log, page>>

\* after the loop: update_job_last_run, then complete_execution_log with
\* status 'success' and the counts; either may raise
Finish(r) ==
    /\ runs[r].pc = "classify"
    /\ runs[r].i > Len(runs[r].all_data)
    /\ \/ /\ execution_log' = CompleteExecutionLog(execution_log, runs[r].log_id, "success",
                    Len(runs[r].all_data), runs[r].new_count, runs[r].dup_count,
                    runs[r].sent_count, "NULL")
          /\ runs' = [runs EXCEPT ![r] = EndRun(@, "done")]
          /\ progress' = Returned(r)
       \/ /\ runs' = [runs EXCEPT ![r] = [@ EXCEPT !.pc = "except", !.error = "Exception",
                                                    !.fault = TRUE]]
          /\ UNCHANGED <<execution_log, progress>>
    /\ UNCHANGED <<hashVars, unitVars, extracted_data, api, jobs, page, telegram>>

\* except Exception as e: complete_execution_log(log_id, 'failed',
\* error_message=str(e)); when this call raises, the exception leaves execute_job
HandleException(r) ==
    /\ runs[r].pc = "except"
    /\ \/ /\ execution_log' = CompleteFailed(execution_log, runs[r].log_id, runs[r].error)
          /\ runs' = [runs EXCEPT ![r] = EndRun(@, "done")]
       \/ /\ runs' = [runs EXCEPT ![r] = EndRun([@ EXCEPT !.fault = TRUE], "raised")]
          /\ UNCHANGED execution_log
    /\ progress' = Returned(r)
    /\ UNCHANGED <<hashVars, unitVars, extracted_data, api, jobs, page, telegram>>

\* the watched page shows a further record (a change of the page commutes
\* with every step of a run but its extraction: the changes made while a run
\* is in progress are the ones made before it began)
NewContent ==
    /\ Len(page) < MaxItems
    /\ Ended = 1..Len(runs)
    /\ \E data \in EngineRecords : page' = Append(page, data)
    /\ UNCHANGED <<hashVars, unitVars, extracted_data, api, jobs, execution_log, telegram, runs, progress>>

Next ==
    \/ NewContent
    \/ \E job_id \in DOMAIN jobs : BeginRun(job_id)
    \/ \E r \in 1..Len(runs) :
          \/ Setup(r)
          \/ Extract(r)
          \/ ExtractNothing(r)
          \/ Classify(r)
          \/ Store(r)
          \/ Send(r)
          \/ Finish(r)
          \/ HandleException(r)

Init == EngineInit

Spec == Init /\ [][Next]_vars

(* ---- runs started by the scheduler and by /api/run-job ---- *)

\* the jobs table with a further job, one without telegram settings
OverlapJobs ==
    Append(EngineJobs, [job_type |-> "ocr_extraction", enable_deduplication |-> TRUE, telegram |-> FALSE])

OverlapInit ==
    /\ HashIdle
    /\ DbInit
    /\ api = NoCalls
    /\ jobs = OverlapJobs
    /\ execution_log = <<>>
    /\ page \in PageContents
    /\ telegram = {}
    /\ runs = <<>>
    /\ progress = NoProgress
    /\ UnitIdle

\* the runs of job_id that have begun and not ended
InProgress(job_id) ==
    { r \in 1..Len(runs) : runs[r].job_id = job_id /\ runs[r].pc \notin {"done", "raised"} }

\* the interval trigger of job_{job_id} fires: scheduler.add_job is called
\* without max_instances, so the scheduler starts no second instance of the
\* job while the one it started is running; jobs with different ids run in
\* the scheduler's thread pool side by side
SchedulerTick(job_id) ==
    /\ \A r \in InProgress(job_id) : runs[r].trigger # "scheduler"
    /\ StartRun(job_id, "scheduler")

\* POST /api/run-job/<job_id>: the request thread builds an AutomationEngine
\* of its own and calls execute_job
ManualTrigger(job_id) == StartRun(job_id, "manual")

\* a step of run r
RunStep(r) ==
    \/ Setup(r)
    \/ Extract(r)
    \/ ExtractNothing(r)
    \/ Classify(r)
    \/ Store(r)
    \/ Send(r)
    \/ Finish(r)
    \/ HandleException(r)

OverlapNext ==
    \/ \E job_id \in DOMAIN jobs : SchedulerTick(job_id)
    \/ \E job_id \in DOMAIN jobs : ManualTrigger(job_id)
    \/ \E r \in 1..Len(runs) : RunStep(r)

SpecOverlap == OverlapInit /\ [][OverlapNext]_vars

(* ---- runs started by /api/run-job, one request at a time ---- *)

\* POST /api/run-job/<job_id> when no other run is in progress: start_progress,
\* then execute_job with update_progress as the engine's progress callback;
\* the page keeps the records it showed at the first request
ManualRun(job_id) ==
    /\ Ended = 1..Len(runs)
    /\ ManualTrigger(job_id)

ManualNext ==
    \/ \E job_id \in DOMAIN jobs : ManualRun(job_id)
    \/ \E r \in 1..Len(runs) : RunStep(r)

SpecManual == EngineInit /\ [][ManualNext]_vars

----------------------------------------------------------------------------
(* ActionExecutor.execute_actions, and the engine step that calls it *)

\* the pre_extraction_actions lists of a job: per action its stop_on_failure
ActionLists == UNION { [1..n -> [stop_on_failure : BOOLEAN]] : n \in 0..MaxActions }

\* what _execute_single_action does: returns a result with success True,
\* returns one with success False, or raises
Outcomes == {"success", "failure", "raise"}

ActInit ==
    /\ HashIdle
    /\ DbInit
    /\ api = NoCalls
    /\ EngineIdle
    /\ act \in { [pc |-> "pre_actions", actions |-> a, i |-> 0, results |-> <<>>, failed |-> FALSE] : a \in ActionLists }
    /\ CsvIdle
    /\ FmtIdle
    /\ PagIdle /\ TxtIdle /\ NavIdle /\ SchIdle

\* if action.get('stop_on_failure', False): failed = True; break, reached
\* when the result has success False and when the action raised
ShouldStop_ignoreflag(action, success) == ~success

ShouldStop(action, success) == ~success /\ action.stop_on_failure

\* the engine after execute_actions returned action_result: it logs a warning
\* when action_result['success'] is False and goes on to the extraction
AfterPreActions_abort(action_result) == IF action_result.success THEN "extracting" ELSE "aborted"

AfterPreActions(action_result) == "extracting"

\* return {'success': not failed, 'actions_executed': len(results), ...}
ActionResult(results, failed) == [success |-> ~failed, actions_executed |-> Len(results)]

\* the engine's "if pre_actions:": without actions execute_actions is not called
SkipPreActions ==
    /\ act.pc = "pre_actions"
    /\ act.actions = <<>>
    /\ act' = [act EXCEPT !.pc = "extracting"]
    /\ UNCHANGED <<hashVars, extracted_data, api, engineVars, csv, fmt, moreVars>>

\* action_result = self.action_executor.execute_actions(pre_actions)
CallExecuteActions ==
    /\ act.pc = "pre_actions"
    /\ act.actions # <<>>
    /\ act' = [act EXCEPT !.pc = "loop", !.i = 1]
    /\ UNCHANGED <<hashVars, extracted_data, api, engineVars, csv, fmt, moreVars>>

\* one iteration of "for i, action in enumerate(actions, 1)": the result of
\* action i is appended, then the loop breaks, goes on, or ends
ExecuteSingleAction(outcome) ==
    /\ act.pc = "loop"
    /\ LET action == act.actions[act.i]
           success == outcome = "success"
           results == Append(act.results, [index |-> act.i, success |-> success])
       IN  act' = IF ShouldStop(action, success)
                  THEN [act EXCEPT !.results = results, !.failed = TRUE, !.pc = "return"]
                  ELSE [act EXCEPT !.results = results, !.i = @ + 1,
                                   !.pc = IF act.i = Len(act.actions) THEN "return" ELSE "loop"]
    /\ UNCHANGED <<hashVars, extracted_data, api, engineVars, csv, fmt, moreVars>>

\* execute_actions returns, and the engine goes on from its result
ReturnToEngine ==
    /\ act.pc = "return"
    /\ act' = [act EXCEPT !.pc = AfterPreActions(ActionResult(act.results, act.failed))]
    /\ UNCHANGED <<hashVars, extracted_data, api, engineVars, csv, fmt, moreVars>>

ActNext ==
    \/ SkipPreActions
    \/ CallExecuteActions
    \/ \E outcome \in Outcomes : ExecuteSingleAction(outcome)
    \/ ReturnToEngine

SpecActions == ActInit /\ [][ActNext]_vars

----------------------------------------------------------------------------
(* AutomationEngine._execute_csv_job *)

\* active_end = csv_config.get('active_end_hour', 23): the last hour of a day
LastHour == 23

\* datetime.now().hour, active_start_hour, active_end_hour
Hours == 0..LastHour

\* the run before its first step: the hour it runs at, the job's csv_config and
\* telegram settings, and what the run has done so far
CsvRuns ==
    { [pc |-> "start", current_hour |-> h, active_start |-> a, active_end |-> e,
       download_actions |-> d, telegram |-> t, log_id |-> 0, alerts |-> 0,
       downloads |-> 0, analyses |-> 0, sends |-> 0, archives |-> 0,
       sent_count |-> 0, error |-> "NULL"] :
      h \in Hours, a \in Hours, e \in Hours, d \in BOOLEAN, t \in BOOLEAN }

CsvInit ==
    /\ HashIdle
    /\ DbInit
    /\ api = NoCalls
    /\ EngineIdle
    /\ ActIdle
    /\ csv \in CsvRuns
    /\ FmtIdle
    /\ PagIdle /\ TxtIdle /\ NavIdle /\ SchIdle

\* active_start <= current_hour <= active_end
InActiveHours(run) ==
    run.active_start <= run.current_hour /\ run.current_hour <= run.active_end

\* the status the run outside its active hours asks complete_execution_log for
OutsideHoursStatus == "skipped"

\* log_id = self.db.start_execution_log(job_id)
CsvStart ==
    /\ csv.pc = "start"
    /\ execution_log' = StartExecutionLog(execution_log, 1)
    /\ csv' = [csv EXCEPT !.pc = "check_hours", !.log_id = Len(execution_log) + 1]
    /\ UNCHANGED <<hashVars, extracted_data, api, jobs, page, telegram, runs, progress, act, fmt, moreVars>>

\* a call of complete_execution_log inside the try block: the UPDATE is
\* refused with sqlite3.IntegrityError when the status fails the CHECK
\* constraint, and the exception reaches the handler
CsvComplete(status, items, sent, error_message) ==
    IF status \in StatusAllowed
    THEN /\ execution_log' = CompleteExecutionLog(execution_log, csv.log_id, status, items, items, 0, sent, error_message)
         /\ csv' = [csv EXCEPT !.pc = "done"]
    ELSE /\ csv' = [csv EXCEPT !.pc = "except", !.error = "CHECK constraint failed"]
         /\ UNCHANGED execution_log

\* the active-hours check: outside the window the run asks for its entry to
\* be completed and returns
CheckActiveHours ==
    /\ csv.pc = "check_hours"
    /\ IF InActiveHours(csv)
       THEN /\ csv' = [csv EXCEPT !.pc = "download"]
            /\ UNCHANGED execution_log
       ELSE CsvComplete(OutsideHoursStatus, 0, 0, "Outside active hours")
    /\ UNCHANGED <<hashVars, extracted_data, api, jobs, page, telegram, runs, progress, act, fmt, moreVars>>

\* step 1: the download actions, if the job has any
CsvDownload ==
    /\ csv.pc = "download"
    /\ csv' = [csv EXCEPT !.pc = "find",
                          !.downloads = IF csv.download_actions THEN @ + 1 ELSE @]
    /\ UNCHANGED <<hashVars, extracted_data, api, engineVars, act, fmt, moreVars>>

\* step 2: find_latest_csv and analyze_prep_times; no file found raises
\* ValueError, and the analysis of a file either raises or returns the alerts
CsvAnalyze ==
    /\ csv.pc = "find"
    /\ \/ csv' = [csv EXCEPT !.pc = "except", !.error = "CSV file not found"]
       \/ csv' = [csv EXCEPT !.pc = "except", !.error = "analysis failed", !.analyses = @ + 1]
       \/ \E n \in {0, 1} : csv' = [csv EXCEPT !.pc = "send", !.alerts = n, !.analyses = @ + 1]
    /\ UNCHANGED <<hashVars, extracted_data, api, engineVars, act, fmt, moreVars>>

\* step 3: one message with all alerts, if there are alerts and telegram is set
CsvSend ==
    /\ csv.pc = "send"
    /\ IF csv.alerts > 0 /\ csv.telegram
       THEN \E success \in BOOLEAN :
               csv' = [csv EXCEPT !.pc = "archive", !.sends = @ + 1,
                                  !.sent_count = IF success THEN 1 ELSE 0]
       ELSE csv' = [csv EXCEPT !.pc = "archive"]
    /\ UNCHANGED <<hashVars, extracted_data, api, engineVars, act, fmt, moreVars>>

\* step 4: archive_csv
CsvArchive ==
    /\ csv.pc = "archive"
    /\ csv' = [csv EXCEPT !.pc = "finish", !.archives = @ + 1]
    /\ UNCHANGED <<hashVars, extracted_data, api, engineVars, act, fmt, moreVars>>

\* update_job_last_run, then complete_execution_log(status='success', ...)
CsvFinish ==
    /\ csv.pc = "finish"
    /\ CsvComplete("success", csv.alerts, csv.sent_count, "NULL")
    /\ UNCHANGED <<hashVars, extracted_data, api, jobs, page, telegram, runs, progress, act, fmt, moreVars>>

\* except Exception as e: complete_execution_log(status='failed', error_message=str(e))
CsvHandleException ==
    /\ csv.pc = "except"
    /\ execution_log' = CompleteFailed(execution_log, csv.log_id, csv.error)
    /\ csv' = [csv EXCEPT !.pc = "done"]
    /\ UNCHANGED <<hashVars, extracted_data, api, jobs, page, telegram, runs, progress, act, fmt, moreVars>>

CsvNext ==
    \/ CsvStart
    \/ CheckActiveHours
    \/ CsvDownload
    \/ CsvAnalyze
    \/ CsvSend
    \/ CsvArchive
    \/ CsvFinish
    \/ CsvHandleException

SpecCsv == CsvInit /\ [][CsvNext]_vars

----------------------------------------------------------------------------
(* MessageFormatter.format_message *)

\* the braces of placeholder = f"{{{key}}}"
LBRACE == 123
RBRACE == 125

\* str(None)
NoneText == <<78, 111, 110, 101>>

\* str(value), for a value that is a string or None
Str(value) == IF value = None THEN NoneText ELSE value

\* f"{{{key}}}"
Placeholder(key) == <<LBRACE>> \o key \o <<RBRACE>>

\* s[i:i+len(old)] == old
MatchAt(s, old, i) ==
    /\ i + Len(old) - 1 <= Len(s)
    /\ \A k \in 1..Len(old) : s[i + k - 1] = old[k]

\* old in s
Contains(s, old) == \E i \in 1..Len(s) : MatchAt(s, old, i)

\* The message is kept as a sequence of <<character, origin>>, the origin
\* being 0 for a character of the template and j for one inserted as the
\* value of the j-th item of data; the string itself is Chars(message).
Chars(message) == [i \in 1..Len(message) |-> message[i][1]]

Marked(s, origin) == [i \in 1..Len(s) |-> <<s[i], origin>>]

\* the start positions of the occurrences of old that str.replace replaces in
\* s[i:]: found from left to right, not overlapping (old is not empty)
RECURSIVE Occurrences(_, _, _)
Occurrences(s, old, i) ==
    IF i > Len(s) THEN {}
    ELSE IF MatchAt(s, old, i) THEN {i} \cup Occurrences(s, old, i + Len(old))
    ELSE Occurrences(s, old, i + 1)

\* message[i:].replace(old, new)
RECURSIVE ReplaceFrom(_, _, _, _)
ReplaceFrom(message, old, new, i) ==
    IF i > Len(message) THEN <<>>
    ELSE IF MatchAt(Chars(message), old, i)
         THEN new \o ReplaceFrom(message, old, new, i + Len(old))
         ELSE <<message[i]>> \o ReplaceFrom(message, old, new, i + 1)

\* message.replace(old, new)
Replace(message, old, new) == ReplaceFrom(message, old, new, 1)

\* the field names of the data handed to format_message
FmtKeys == { <<CH_a>>, <<CH_b>>, <<USCORE, CH_a>> }

\* the field values: None, "a", "{a}", "{b}"
FmtValues == { None, <<CH_a>>, <<LBRACE, CH_a, RBRACE>>, <<LBRACE, CH_b, RBRACE>> }

\* the dicts handed to format_message
FmtData ==
    UNION { { d \in [1..n -> FmtKeys \X FmtValues] : IsDict(d) } : n \in 0..MaxFields }

\* the templates: strings of braces and letters
Templates == UNION { [1..n -> {LBRACE, RBRACE, CH_a, CH_b}] : n \in 0..MaxTemplate }

FmtInit ==
    /\ HashIdle
    /\ DbInit
    /\ api = NoCalls
    /\ EngineIdle
    /\ ActIdle
    /\ CsvIdle
    /\ PagIdle /\ TxtIdle /\ NavIdle /\ SchIdle
    /\ fmt \in { [pc |-> "loop", data |-> d, template |-> t, message |-> Marked(t, 0),
                  j |-> 1, out |-> <<>>] : d \in FmtData, t \in Templates }

\* one iteration of "for key, value in data.items()"
FormatItem ==
    /\ fmt.pc = "loop"
    /\ fmt.j <= Len(fmt.data)
    /\ LET key == fmt.data[fmt.j][1]
           value == fmt.data[fmt.j][2]
       IN  fmt' = IF StartsWithUnderscore(key) \/ ~Contains(Chars(fmt.message), Placeholder(key))
                  THEN [fmt EXCEPT !.j = @ + 1]
                  ELSE [fmt EXCEPT !.j = @ + 1,
                                   !.message = Replace(@, Placeholder(key), Marked(Str(value), fmt.j))]
    /\ UNCHANGED <<hashVars, extracted_data, api, engineVars, act, csv, moreVars>>

\* return message
FormatReturn ==
    /\ fmt.pc = "loop"
    /\ fmt.j > Len(fmt.data)
    /\ fmt' = [fmt EXCEPT !.pc = "done", !.out = Chars(fmt.message)]
    /\ UNCHANGED <<hashVars, extracted_data, api, engineVars, act, csv, moreVars>>

FmtNext == FormatItem \/ FormatReturn

SpecFormat == FmtInit /\ [][FmtNext]_vars

----------------------------------------------------------------------------
(* Paginator: scroll_and_extract and paginate_and_extract                  *)
(* (modules/paginator.py).  A screenshot is the sequence of its grayscale  *)
(* pixels; the harness draws the screen the browser shows after each       *)
(* scroll or click, and whether a "next" control is found.                 *)

\* the largest max_scrolls / max_pages of a call
MaxScrolls == 5

\* hist[:10]: the differences counted as "very similar" are 0..9
SimilarBelow == 10

\* the default threshold of _images_similar, in percent
ThresholdPercent == 98

\* the grayscale values of a pixel in the model: 0 and 8 differ by less than
\* ten, 8 and 16 too, 0 and 16 do not
Shades == {0, 8, 16}

\* the screens the browser can show: one pixel each
Screens == {<<shade>> : shade \in Shades}

\* abs() of a difference of two pixels (ImageChops.difference)
Difference(a, b) == IF a >= b THEN a - b ELSE b - a

\* Paginator._images_similar
ImagesSimilar(img1, img2) == IF Len(img1) # Len(img2) THEN FALSE ELSE LET total_pixels == Len(img1) similar_pixels == Cardinality({p \in 1..Len(img1) : Difference(img1[p], img2[p]) < SimilarBelow}) IN similar_pixels * 100 > ThresholdPercent * total_pixels

\* the test a wrong build would make: two unchanged comparisons are enough
ReachedBottom_two(consecutive_same) == consecutive_same >= 2

\* "Reached bottom (no new content)" / "Page did not change after clicking Next"
ReachedBottom(consecutive_same) == consecutive_same >= 3

\* a paginator call at its first loop test: all_data = [], consecutive_same = 0
PagStart(mode, max, screen) == [pc |-> "loop", mode |-> mode, max |-> max, count |-> IF mode = "scroll" THEN 0 ELSE 1, previous |-> None, consecutive_same |-> 0, all_data |-> <<>>, screen |-> screen, stop |-> "running"]

PagInit ==
    /\ HashIdle
    /\ EngineIdle
    /\ extracted_data = {}
    /\ api = <<>>
    /\ ActIdle /\ CsvIdle /\ FmtIdle /\ TxtIdle /\ NavIdle /\ SchIdle
    /\ \E mode \in {"scroll", "paginate"}, max \in 0..MaxScrolls, screen \in Screens : pag = PagStart(mode, max, screen)

\* the data_dict of one capture: what the regions show and the position
DataDict(screenshot, position) == [screen |-> screenshot, position |-> position]

\* the loop test of scroll_and_extract
ScrollContinues(p) == p.count < p.max

\* the loop test a wrong build would make: one page more than max_pages
PaginateContinues_beyond(p) == p.count <= p.max + 1

\* the loop test of paginate_and_extract
PaginateContinues(p) == p.count <= p.max

\* one iteration of the while loop of scroll_and_extract; the page shows
\* next_screen after the scroll
ScrollIteration(next_screen) ==
    /\ pag.pc = "loop" /\ pag.mode = "scroll"
    /\ ScrollContinues(pag)
    /\ LET screenshot == pag.screen
           all_data == Append(pag.all_data, DataDict(screenshot, pag.count))
           similar == pag.previous # None /\ ImagesSimilar(pag.previous, screenshot)
           consecutive_same == IF pag.previous = None THEN pag.consecutive_same ELSE IF similar THEN pag.consecutive_same + 1 ELSE 0
       IN  IF similar /\ ReachedBottom(consecutive_same)
           THEN pag' = [pag EXCEPT !.all_data = all_data, !.consecutive_same = consecutive_same, !.pc = "returned", !.stop = "bottom"]
           ELSE pag' = [pag EXCEPT !.all_data = all_data, !.consecutive_same = consecutive_same, !.previous = screenshot, !.screen = next_screen, !.count = pag.count + 1]
    /\ UNCHANGED <<hashVars, extracted_data, api, engineVars, act, csv, fmt, txt, nav, sch>>

\* one iteration of the while loop of paginate_and_extract; found tells whether
\* _find_next_button returns a position, new_screenshot is the page after the click
PaginateIteration(found, new_screenshot) ==
    /\ pag.pc = "loop" /\ pag.mode = "paginate"
    /\ PaginateContinues(pag)
    /\ LET screenshot == pag.screen
           all_data == Append(pag.all_data, DataDict(screenshot, pag.count))
           similar == ImagesSimilar(screenshot, new_screenshot)
           consecutive_same == IF similar THEN pag.consecutive_same + 1 ELSE 0
       IN  IF ~found
           THEN pag' = [pag EXCEPT !.all_data = all_data, !.pc = "returned", !.stop = "no_next"]
           ELSE IF similar /\ ReachedBottom(consecutive_same)
           THEN pag' = [pag EXCEPT !.all_data = all_data, !.consecutive_same = consecutive_same, !.screen = new_screenshot, !.pc = "returned", !.stop = "unchanged"]
           ELSE pag' = [pag EXCEPT !.all_data = all_data, !.consecutive_same = consecutive_same, !.screen = new_screenshot, !.count = pag.count + 1]
    /\ UNCHANGED <<hashVars, extracted_data, api, engineVars, act, csv, fmt, txt, nav, sch>>

\* the loop test fails: return all_data
PagReturn ==
    /\ pag.pc = "loop"
    /\ IF pag.mode = "scroll" THEN ~ScrollContinues(pag) ELSE ~PaginateContinues(pag)
    /\ pag' = [pag EXCEPT !.pc = "returned", !.stop = "max"]
    /\ UNCHANGED <<hashVars, extracted_data, api, engineVars, act, csv, fmt, txt, nav, sch>>

PagNext ==
    \/ \E next_screen \in Screens : ScrollIteration(next_screen)
    \/ \E found \in BOOLEAN, new_screenshot \in Screens : PaginateIteration(found, new_screenshot)
    \/ PagReturn

SpecPag == PagInit /\ [][PagNext]_vars

\* the paginator's loops under the scheduling of a sequential program: a loop
\* that can take a step takes it
SpecPagLive == SpecPag /\ WF_vars(PagNext)

----------------------------------------------------------------------------
(* DOMExtractor._deduplicate_text (modules/dom_extractor.py).  The values   *)
(* handed over are the strings over a letter, a second letter and the      *)
(* space, up to MaxText characters; none holds a newline.                  *)

\* the longest value handed to _deduplicate_text
MaxText == 10

\* values shorter than this are returned as they are
MinLength == 10

\* method 3 looks at the first twenty characters of the first half
PrefixLength == 20

\* method 4 tries the split points up to five characters around the middle
\* and keeps five characters on each side
SplitMargin == 5

\* the characters of a value
TextChars == {CH_a, CH_b, SP}

\* the values handed to _deduplicate_text
Texts == UNION {[1..n -> TextChars] : n \in 0..MaxText}

\* s[:n]
Take(s, n) == SubSeq(s, 1, IF n < Len(s) THEN n ELSE Len(s))

\* s[n:]
Drop(s, n) == SubSeq(s, (IF n < Len(s) THEN n ELSE Len(s)) + 1, Len(s))

\* s.startswith(prefix)
StartsWith(s, prefix) == Len(prefix) <= Len(s) /\ SubSeq(s, 1, Len(prefix)) = prefix

\* re.split(r'\s{2,}|\n', value) on a value without newlines: a run of two
\* or more spaces separates two parts; cur is the part being read
RECURSIVE SplitOnSpaces(_, _, _)
SplitOnSpaces(s, cur, parts) ==
    IF s = <<>> THEN Append(parts, cur)
    ELSE IF Len(s) >= 2 /\ IsSpace(s[1]) /\ IsSpace(s[2]) THEN SplitOnSpaces(LStrip(s), <<>>, Append(parts, cur))
    ELSE SplitOnSpaces(Tail(s), Append(cur, s[1]), parts)

\* [p.strip() for p in parts if p.strip()]
RECURSIVE StrippedParts(_)
StrippedParts(parts) ==
    IF parts = <<>> THEN <<>>
    ELSE IF Strip(parts[1]) = <<>> THEN StrippedParts(Tail(parts))
    ELSE <<Strip(parts[1])>> \o StrippedParts(Tail(parts))

\* method 4: the split points around the middle whose two sides are equal
EqualSplits(value) == {split_point \in (Len(value) \div 2 - SplitMargin)..(Len(value) \div 2 + SplitMargin) : /\ ~(split_point < SplitMargin \/ split_point >= Len(value) - SplitMargin)
                                                                                                                   /\ Strip(Take(value, split_point)) = Strip(Drop(value, split_point))}

\* the smallest member of a non-empty set of integers
Least(S) == CHOOSE n \in S : \A m \in S : n <= m

\* method 5: the pattern lengths at which the rest of the value repeats the pattern
RepeatLengths(value) == {i \in MinLength..(Len(value) \div 2) : LET pattern == Take(value, i) remaining == Strip(Drop(value, i)) IN StartsWith(remaining, pattern) /\ Strip(pattern) = Strip(Take(Strip(remaining), Len(pattern)))}

\* value is short enough to be returned untouched
TooShort(value) == value = <<>> \/ Len(value) < MinLength

\* DOMExtractor._deduplicate_text
DeduplicateText(raw) ==
    IF TooShort(raw) THEN raw
    ELSE LET value == Strip(raw)
             half_len == Len(value) \div 2
             first_half == Strip(Take(value, half_len))
             second_half == Strip(Drop(value, half_len))
             parts == StrippedParts(SplitOnSpaces(value, <<>>, <<>>))
         IN  IF first_half = second_half THEN first_half
             ELSE IF Len(parts) = 2 /\ parts[1] = parts[2] THEN parts[1]
             ELSE IF Len(first_half) > MinLength /\ StartsWith(second_half, Take(first_half, PrefixLength)) THEN first_half
             ELSE IF EqualSplits(value) # {} THEN Strip(Take(value, Least(EqualSplits(value))))
             ELSE IF RepeatLengths(value) # {} THEN Strip(Take(value, Least(RepeatLengths(value))))
             ELSE value

TxtInit ==
    /\ HashIdle
    /\ EngineIdle
    /\ extracted_data = {}
    /\ api = <<>>
    /\ ActIdle /\ CsvIdle /\ FmtIdle /\ PagIdle /\ NavIdle /\ SchIdle
    /\ \E value \in Texts : txt = [pc |-> "call", value |-> value, result |-> None]

\* the call of _deduplicate_text on the value of one field
CallDeduplicateText ==
    /\ txt.pc = "call"
    /\ txt' = [txt EXCEPT !.pc = "returned", !.result = DeduplicateText(txt.value)]
    /\ UNCHANGED <<hashVars, extracted_data, api, engineVars, act, csv, fmt, pag, nav, sch>>

TxtNext == CallDeduplicateText

SpecText == TxtInit /\ [][TxtNext]_vars

----------------------------------------------------------------------------
(* The DOM job's browser: STEP 1 and STEP 3 of _execute_dom_job with       *)
(* DOMExtractor.connect_to_browser and extract_from_current_page.  One      *)
(* engine (one DOMExtractor) executes DOM jobs one after the other; the     *)
(* URL of job j is j, and Elsewhere is any other page.                      *)

\* the runs of DOM jobs the engine executes
MaxNavRuns == 2

\* a page that is the URL of no job
Elsewhere == 0

\* the configured URLs of the DOM jobs
Urls == 1..MaxJobs

NavInit ==
    /\ HashIdle
    /\ EngineIdle
    /\ extracted_data = {}
    /\ api = <<>>
    /\ ActIdle /\ CsvIdle /\ FmtIdle /\ PagIdle /\ TxtIdle /\ SchIdle
    /\ \E edge \in BOOLEAN, tab \in Urls \cup {Elsewhere} :
          /\ ~edge => tab = Elsewhere
          /\ nav = [pc |-> "ready", edge |-> edge, tab |-> tab, connected |-> FALSE,
                    url |-> Elsewhere, navigated |-> FALSE, n |-> 0, reads |-> <<>>]

\* execute_job of a DOM job whose dom_config.url is url
NavBeginRun(url) ==
    /\ nav.pc = "ready"
    /\ nav.n < MaxNavRuns
    /\ nav' = [nav EXCEPT !.pc = "step1", !.url = url, !.navigated = FALSE, !.n = @ + 1]
    /\ UNCHANGED <<hashVars, extracted_data, api, engineVars, act, csv, fmt, pag, txt, sch>>

\* STEP 1: self.dom_extractor.connect_to_browser(url=url).  Connected already:
\* True at once.  Edge found with a debug port: the first page tab is taken as
\* it is.  No debug port: Edge is started with the URL on its command line.
\* A False return makes the engine raise RuntimeError.
ConnectToBrowser ==
    /\ nav.pc = "step1"
    /\ IF nav.connected
       THEN nav' = [nav EXCEPT !.pc = "step3"]
       ELSE IF nav.edge
       THEN \/ nav' = [nav EXCEPT !.pc = "step3", !.connected = TRUE]
            \/ nav' = [nav EXCEPT !.pc = "ready"]
       ELSE \/ nav' = [nav EXCEPT !.pc = "step3", !.connected = TRUE, !.edge = TRUE,
                                  !.tab = nav.url, !.navigated = TRUE]
            \/ nav' = [nav EXCEPT !.pc = "ready"]
    /\ UNCHANGED <<hashVars, extracted_data, api, engineVars, act, csv, fmt, pag, txt, sch>>

\* STEP 3: self.dom_extractor.extract_from_current_page(selectors): the
\* selectors are run on the page the tab shows; the harness notes which page
\* that was, for which URL, and whether this run had loaded it
ExtractFromCurrentPage ==
    /\ nav.pc = "step3"
    /\ nav' = [nav EXCEPT !.pc = "ready",
                          !.reads = Append(@, [url |-> nav.url, tab |-> nav.tab, navigated |-> nav.navigated])]
    /\ UNCHANGED <<hashVars, extracted_data, api, engineVars, act, csv, fmt, pag, txt, sch>>

\* somebody uses the browser: the tab shows another page
TabChanges(page_url) ==
    /\ nav.pc = "ready"
    /\ nav.edge
    /\ nav.tab # page_url
    /\ nav' = [nav EXCEPT !.tab = page_url]
    /\ UNCHANGED <<hashVars, extracted_data, api, engineVars, act, csv, fmt, pag, txt, sch>>

NavNext ==
    \/ \E url \in Urls : NavBeginRun(url)
    \/ ConnectToBrowser
    \/ ExtractFromCurrentPage
    \/ \E page_url \in Urls \cup {Elsewhere} : TabChanges(page_url)

SpecNav == NavInit /\ [][NavNext]_vars

----------------------------------------------------------------------------
(* The scheduler: schedule_all_active_jobs, the interval triggers, and     *)
(* /api/job/<id>/toggle                                                    *)

\* the scheduled executions the harness follows
MaxTicks == 3

SchInit ==
    /\ HashIdle
    /\ EngineIdle
    /\ extracted_data = {}
    /\ api = <<>>
    /\ ActIdle /\ CsvIdle /\ FmtIdle /\ PagIdle /\ TxtIdle /\ NavIdle
    /\ \E active \in [1..MaxJobs -> BOOLEAN] : sch = [pc |-> "start", active |-> active, scheduled |-> {}, ticks |-> <<>>]

\* run_forever: schedule_all_active_jobs adds an interval trigger for every
\* job that get_active_jobs returns
ScheduleAllActiveJobs ==
    /\ sch.pc = "start"
    /\ sch' = [sch EXCEPT !.pc = "running", !.scheduled = { job_id \in DOMAIN sch.active : sch.active[job_id] }]
    /\ UNCHANGED <<hashVars, extracted_data, api, engineVars, act, csv, fmt, pag, txt, nav>>

\* POST /api/job/<job_id>/toggle: db.update_job(job_id, {'active': not job['active']})
ApiToggleJob(job_id) ==
    /\ sch.pc # "idle"
    /\ sch' = [sch EXCEPT !.active[job_id] = ~@]
    /\ UNCHANGED <<hashVars, extracted_data, api, engineVars, act, csv, fmt, pag, txt, nav>>

\* the interval trigger job_<job_id> fires: execute_job(job_id) loads the job
\* and runs it; the harness notes the job's active flag at that time
ScheduledExecution(job_id) ==
    /\ sch.pc = "running"
    /\ job_id \in sch.scheduled
    /\ Len(sch.ticks) < MaxTicks
    /\ sch' = [sch EXCEPT !.ticks = Append(@, [job_id |-> job_id, active |-> sch.active[job_id]])]
    /\ UNCHANGED <<hashVars, extracted_data, api, engineVars, act, csv, fmt, pag, txt, nav>>

SchNext ==
    \/ ScheduleAllActiveJobs
    \/ \E job_id \in 1..MaxJobs : ApiToggleJob(job_id)
    \/ \E job_id \in 1..MaxJobs : ScheduledExecution(job_id)

SpecSched == SchInit /\ [][SchNext]_vars

----------------------------------------------------------------------------
(* Claims about generate_hash *)

\* h_other holds the items of h_in in some order
IsReordering(d, e) ==
    /\ Len(d) = Len(e)
    /\ { d[i] : i \in 1..Len(d) } = { e[i] : i \in 1..Len(e) }

\* C5: generate_hash(R) = generate_hash(R') for every record R and every R'
\* obtained from R by reordering its keys.
C5_HashOrderIndependent ==
    (h_out.called /\ IsReordering(h_in, h_other)) => h_out.a = h_out.b

\* a record with two or more hashed fields was hashed in two different key orders
C5_Witness ==
    /\ h_out.called
    /\ IsReordering(h_in, h_other)
    /\ h_other # h_in
    /\ Len(CleanData(h_in)) >= 2

\* e is d with one blank-valued key added
AddsBlankKey(d, e) ==
    /\ Len(e) = Len(d) + 1
    /\ \E i \in 1..Len(e) : IsBlank(e[i][2]) /\ RemoveAt(e, i) = d

\* C6: adding to or removing from a record a key whose value is empty,
\* whitespace-only or None never changes generate_hash of the record.
C6_BlankKeyIrrelevant ==
    (h_out.called /\ (AddsBlankKey(h_in, h_other) \/ AddsBlankKey(h_other, h_in)))
        => h_out.a = h_out.b

\* a whitespace-only key was added to a record that has a hashed field
C6_Witness ==
    /\ h_out.called
    /\ AddsBlankKey(h_in, h_other)
    /\ \E i \in 1..Len(h_other) : h_other[i][2] = <<SP>> /\ RemoveAt(h_other, i) = h_in
    /\ CleanData(h_in) # <<>>

\* C7: two records whose sets of non-metadata, non-empty (key, stripped value)
\* pairs differ are mapped by generate_hash to different content strings,
\* hence to different hashes.
C7_DifferentDataDifferentHash ==
    (h_out.called /\ SemanticPairs(h_in) # SemanticPairs(h_other)) => h_out.a # h_out.b

----------------------------------------------------------------------------
(* Claims about process_item, is_duplicate and store_extracted_data *)

\* the step is a call of process_item
IsProcessItemCall == api'.n = api.n + 1 /\ api'.op = "process_item"

\* the step is a call of store_and_mark or of store_extracted_data
IsStoreCall == api'.n = api.n + 1 /\ api'.op \in {"store_and_mark", "store_extracted_data"}

\* C2 as stated: process_item returns is_new = true the first time content R
\* is seen for job_id and is_new = false on every subsequent process_item call
\* for semantically identical content for the same job_id.
C2_FirstSeenThenDuplicate ==
    [][IsProcessItemCall =>
        (api'.result.is_new <=>
            <<api'.job_id, SemanticPairs(api'.result.data)>> \notin api.seen)]_vars

\* C2 amended: process_item returns is_new = false on every call made once
\* semantically identical content is stored for job_id, whatever the field
\* order or the '_' metadata of the later record, and is_new = true, on the
\* first call and on every repeated one, while no row with the record's hash
\* is stored for job_id.
C2_DuplicateOnceStored ==
    [][IsProcessItemCall =>
        LET job_id == api'.job_id
            data == api'.result.data
        IN  /\ (\E row \in extracted_data :
                    /\ row.job_id = job_id
                    /\ SemanticPairs(row.data) = SemanticPairs(data))
                  => ~api'.result.is_new
            /\ (\A row \in extracted_data :
                    row.job_id = job_id => row.hash # GenerateHash(data))
                  => api'.result.is_new]_vars

\* process_item found a duplicate of a stored record that lists the same
\* content in another key order and with other metadata
C2_Witness ==
    /\ api.op = "process_item"
    /\ ~api.result.is_new
    /\ \E row \in extracted_data :
          /\ row.job_id = api.job_id
          /\ row.data # api.result.data
          /\ ~IsReordering(row.data, api.result.data)
          /\ SemanticPairs(row.data) = SemanticPairs(api.result.data)

\* C3: the same content classified under two different job ids is new for
\* each job independently: storing a record for job A never makes
\* process_item(B, same content) return is_new = false.
C3_JobsIndependent ==
    [][IsStoreCall =>
        \A b \in JobIds \ {api'.job_id}, data \in SampleRecords :
            ProcessItem(extracted_data', b, data).is_new
                = ProcessItem(extracted_data, b, data).is_new]_vars

\* content stored for one job was classified new for another job
C3_Witness ==
    /\ api.op = "process_item"
    /\ api.result.is_new
    /\ \E row \in extracted_data :
          row.job_id # api.job_id /\ row.hash = api.result.hash

\* C4: the store holds at most one extracted_data row per (job_id, hash) pair;
\* inserting an already present pair adds no row, changes no existing row and
\* returns -1.
C4_UniquePerJobHash ==
    [][IsStoreCall =>
        /\ \A r1, r2 \in extracted_data' :
              (r1.job_id = r2.job_id /\ r1.hash = r2.hash) => r1 = r2
        /\ (\E row \in extracted_data :
                row.job_id = api'.job_id /\ row.hash = api'.hash)
              => (extracted_data' = extracted_data /\ api'.ret = -1)]_vars

\* an INSERT of a present (job_id, hash) pair was rejected, the caller holding
\* a process_item result that said the record was new
C4_Witness ==
    /\ api.op = "store_and_mark"
    /\ api.result.is_new
    /\ api.ret = -1
    /\ \E row \in extracted_data : row.job_id = api.job_id /\ row.hash = api.hash

----------------------------------------------------------------------------
(* Claims about execute_job *)

\* the records of all_data[1..n] that the loop of the job does not skip as empty
RECURSIVE NonEmptyCount(_, _, _)
NonEmptyCount(job, all_data, n) ==
    IF n = 0 THEN 0
    ELSE NonEmptyCount(job, all_data, n - 1)
            + (IF IsEmptyDataPoint(LoopData(job, all_data[n])) THEN 0 ELSE 1)

\* the execution_log row of run r
LogOf(r) == execution_log[runs[r].log_id]

\* run r2 re-runs, after a successful run of the same job had returned, the
\* job with deduplication enabled on the records that run extracted
IsRerun(r2) ==
    /\ Job(r2).enable_deduplication
    /\ runs[r2].pc \in {"classify", "store", "send", "except", "done"}
    /\ \E r1 \in runs[r2].after :
          /\ runs[r1].job_id = runs[r2].job_id
          /\ runs[r1].pc = "done"
          /\ LogOf(r1).status = "success"
          /\ runs[r1].all_data = runs[r2].all_data

\* C1: for a job with deduplication enabled, running execute_job twice in
\* sequence while the extractor returns the same records both times yields,
\* on the second run, items_new = 0 and items_sent = 0, with every non-empty
\* record counted in items_duplicate (both runs completing: the second run
\* stores and sends nothing and counts each record it has passed as a
\* duplicate, and its log entry carries these counts).
C1_SecondRunAllDuplicates ==
    \A r2 \in 1..Len(runs) :
        IsRerun(r2) =>
            /\ runs[r2].new_count = 0
            /\ runs[r2].sent_count = 0
            /\ runs[r2].pc \in {"classify", "store", "send"} =>
                  /\ runs[r2].pc = "classify"
                  /\ runs[r2].dup_count =
                        NonEmptyCount(Job(r2), runs[r2].all_data, runs[r2].i - 1)
            /\ (runs[r2].pc = "done" /\ LogOf(r2).status = "success") =>
                  /\ LogOf(r2).items_new = 0
                  /\ LogOf(r2).items_sent = 0
                  /\ LogOf(r2).items_duplicate =
                        NonEmptyCount(Job(r2), runs[r2].all_data, Len(runs[r2].all_data))

\* a second run of a job has completed on the records of which the first
\* run had stored and sent one, and has logged every non-empty one as duplicate
C1_Witness ==
    \E r2 \in 1..Len(runs) :
        /\ IsRerun(r2)
        /\ runs[r2].pc = "done"
        /\ LogOf(r2).status = "success"
        /\ LogOf(r2).items_duplicate = MaxItems
        /\ \E r1 \in runs[r2].after :
              /\ runs[r1].job_id = runs[r2].job_id
              /\ LogOf(r1).status = "success"
              /\ LogOf(r1).items_new >= 1
              /\ LogOf(r1).items_sent >= 1

\* C8: every run that creates an execution-log entry (status 'running')
\* finalizes that entry with a terminal status before execute_job returns, on
\* the success path and on every failure path; no entry stays 'running' after
\* a run has ended.
C8_LogFinalized ==
    \A r \in 1..Len(runs) :
        runs[r].pc \in {"done", "raised"} => LogOf(r).status # "running"

\* the handler of run r writes the 'failed' entry in this step
WritesFailedEntry(r) == runs[r].pc = "except" /\ runs'[r].pc = "done"

\* C9: when a run fails after some records have already been processed, the
\* 'failed' execution-log entry carries the items_extracted, items_new,
\* items_duplicate and items_sent counts reached before the failure.
C9_FailedEntryKeepsCounts ==
    [][\A r \in 1..Len(runs) :
          (WritesFailedEntry(r) /\ runs[r].new_count + runs[r].dup_count > 0) =>
              LET entry == execution_log'[runs[r].log_id]
              IN  /\ entry.status = "failed"
                  /\ entry.items_extracted = Len(runs[r].all_data)
                  /\ entry.items_new = runs[r].new_count
                  /\ entry.items_duplicate = runs[r].dup_count
                  /\ entry.items_sent = runs[r].sent_count]_vars

\* C10: an execution-log entry is finalized exactly once per run: once its
\* status has left 'running', its status, counts and error message are never
\* written again.
C10_FinalizedOnce ==
    [][\A l \in 1..Len(execution_log) :
          execution_log[l].status # "running" => execution_log'[l] = execution_log[l]]_vars

----------------------------------------------------------------------------
(* Claims about the outcome of a run *)

\* run r is a DOM-extraction run whose extractor returned zero items
ZeroItemRun(r) == Job(r).job_type = "dom_extraction" /\ runs[r].extracted = 0

\* the loop of DOM run r is over and has classified every item a duplicate
OnlyDuplicates(r) ==
    /\ Job(r).job_type = "dom_extraction"
    /\ runs[r].pc = "classify"
    /\ runs[r].i > Len(runs[r].all_data)
    /\ Len(runs[r].all_data) >= 1
    /\ runs[r].dup_count = Len(runs[r].all_data)

\* C11: a DOM-extraction run whose extractor returns zero items ends with a
\* 'failed' log entry having items_extracted = 0 and a non-null error message,
\* and stores and sends nothing; a run that returns at least one item, all of
\* them duplicates, ends 'success' with items_new = 0 (no operation of the run
\* raising but the validation of the item count itself).
C11_ZeroItemsFailDuplicatesSucceed ==
    [][\A r \in 1..Len(runs) :
          /\ (ZeroItemRun(r)' /\ runs'[r].pc \in {"done", "raised"} /\ ~runs'[r].fault) =>
                /\ execution_log'[runs[r].log_id].status = "failed"
                /\ execution_log'[runs[r].log_id].items_extracted = 0
                /\ execution_log'[runs[r].log_id].error_message # "NULL"
          /\ (ZeroItemRun(r)' /\ runs'[r] # runs[r]) =>
                /\ extracted_data' = extracted_data
                /\ telegram' = telegram
          /\ (OnlyDuplicates(r) /\ runs'[r].pc = "done") =>
                /\ execution_log'[runs[r].log_id].status = "success"
                /\ execution_log'[runs[r].log_id].items_new = 0]_vars

\* a DOM run whose extractor returned zero items has ended, nothing else
\* having gone wrong in it
C11_Witness ==
    \E r \in 1..Len(runs) :
        /\ ZeroItemRun(r)
        /\ runs[r].pc = "done"
        /\ ~runs[r].fault
        /\ LogOf(r).status = "failed"

\* run r makes a send_message call in this step (every step from "send" does)
Sends(r) == runs[r].pc = "send" /\ runs'[r] # runs[r]

\* the send_message call run r makes in this step
\* (a call that returned success is counted in sent_count)
ThisCall(r) == SendCall(r, runs'[r].sent_count > runs[r].sent_count)

\* the call made in this step was for a newly stored record and failed
FailsForNewRecord(r) == ~ThisCall(r).success /\ ThisCall(r).record_id > 0

\* an earlier send of the record of this step's call, newly stored then, failed
FailedBefore(r) ==
    \E call \in telegram :
        /\ call.job_id = ThisCall(r).job_id
        /\ call.hash = ThisCall(r).hash
        /\ call.record_id > 0
        /\ ~call.success

\* the failed send of run r leaves the record stored and unsent, leaves the
\* count of sent items, and the run moves on to its next record
FailedSendSkipsRecord(r) ==
    /\ runs'[r].pc = "classify"
    /\ runs'[r].i = runs[r].i + 1
    /\ runs'[r].sent_count = runs[r].sent_count
    /\ extracted_data' = extracted_data
    /\ \E row \in extracted_data' :
          /\ row.id = ThisCall(r).record_id
          /\ row.hash = ThisCall(r).hash
          /\ row.sent_to_telegram = 0

C13_ErrorsContained ==
    \A r \in 1..Len(runs) :
        /\ runs[r].pc # "raised"
        /\ (runs[r].fault /\ runs[r].pc = "done") =>
              /\ LogOf(r).status = "failed"
              /\ LogOf(r).error_message # "NULL"

----------------------------------------------------------------------------
(* Claims about the scheduling of runs *)

\* C14: no two runs of the same job overlap: a run of job J started by a
\* scheduler tick or by a manual trigger (/api/run-job) never starts while
\* another run of J is still in progress.
C14_NoOverlap ==
    \A job_id \in DOMAIN jobs : Cardinality(InProgress(job_id)) <= 1

----------------------------------------------------------------------------
(* Claims about the pre-extraction actions *)

\* the result of the action executed last
LastResult == act.results[Len(act.results)]

\* C15: execute_actions runs the actions strictly in list order: the k-th
\* action executed is action k of the list.  When it returns having failed,
\* the action executed last failed and has stop_on_failure, no later action
\* ran, and actions_executed is the 1-based index of that action.  A failing
\* action without stop_on_failure does not end the loop: in every other case
\* all actions of the list were executed.
C15_ActionsInOrderStopOnFlag ==
    /\ \A k \in 1..Len(act.results) : act.results[k].index = k
    /\ Len(act.results) <= Len(act.actions)
    /\ act.pc = "return" =>
          LET ret == ActionResult(act.results, act.failed)
          IN  IF \E k \in 1..Len(act.results) :
                    ~act.results[k].success /\ act.actions[k].stop_on_failure
              THEN /\ ~ret.success
                   /\ ~LastResult.success
                   /\ act.actions[LastResult.index].stop_on_failure
                   /\ ret.actions_executed = LastResult.index
                   /\ \A k \in 1..(Len(act.results) - 1) :
                         act.results[k].success \/ ~act.actions[k].stop_on_failure
              ELSE /\ ret.success
                   /\ ret.actions_executed = Len(act.actions)

\* a call that stopped at a failing action with stop_on_failure before the end
\* of the list, after an earlier action without the flag had failed
C15_Witness ==
    /\ act.pc = "return"
    /\ act.failed
    /\ Len(act.results) < Len(act.actions)
    /\ \E k \in 1..(Len(act.results) - 1) : ~act.results[k].success

\* some executed action failed and is marked stop_on_failure
FailFastFailure ==
    \E k \in 1..Len(act.results) : ~act.results[k].success /\ act.actions[k].stop_on_failure

\* C16 (as stated): a failed pre-extraction action aborts the run if and only
\* if it is marked stop_on_failure: with the flag the run does not reach the
\* extraction.
C16_FailFastAborts == act.pc = "extracting" => ~FailFastFailure

\* C16 (amended): a failed pre-extraction action never aborts the run: once
\* execute_actions has returned, whatever its result, the run goes on to the
\* extraction.
C16_FailedActionNeverAborts ==
    /\ [](act.pc # "aborted")
    /\ [][act.pc = "return" => act'.pc = "extracting"]_vars

\* the run reached the extraction after an action marked stop_on_failure failed
C16_Witness == act.pc = "extracting" /\ FailFastFailure

----------------------------------------------------------------------------
(* Claims about the CSV-analysis run *)

\* C17: a CSV-analysis run started outside the job's active hours ends with
\* its execution-log entry in status 'skipped', having executed no download
\* action, CSV analysis, send or archive.
C17_OutsideHoursSkipped ==
    (csv.pc = "done" /\ ~InActiveHours(csv)) =>
        /\ execution_log[csv.log_id].status = "skipped"
        /\ csv.downloads = 0
        /\ csv.analyses = 0
        /\ csv.sends = 0
        /\ csv.archives = 0

----------------------------------------------------------------------------
(* Claims about the message template *)

\* the item format_message is about to substitute, if its key is not metadata
Substituting ==
    /\ fmt.pc = "loop"
    /\ fmt.j <= Len(fmt.data)
    /\ ~StartsWithUnderscore(fmt.data[fmt.j][1])

\* C18: format_message substitutes in one pass with no recursive expansion:
\* text inserted as the value of one placeholder is never itself matched and
\* replaced as the placeholder of another field, for any data and any order of
\* its keys.  Every occurrence about to be replaced consists of characters of
\* the template only.
C18_NoRecursiveExpansion ==
    Substituting =>
        LET old == Placeholder(fmt.data[fmt.j][1])
        IN  \A p \in Occurrences(Chars(fmt.message), old, 1) :
               \A k \in p..(p + Len(old) - 1) : fmt.message[k][2] = 0

\* the value of the non-metadata key whose placeholder starts at t[i], as a
\* set: empty when no such key is in data
ValueAt(t, data, i) ==
    { Str(data[n][2]) : n \in { m \in 1..Len(data) :
          ~StartsWithUnderscore(data[m][1]) /\ MatchAt(t, Placeholder(data[m][1]), i) } }

\* the template read once from left to right: a placeholder of a non-metadata
\* key of data gives the value of that key, every other character gives itself
RECURSIVE Substituted(_, _, _)
Substituted(t, data, i) ==
    IF i > Len(t) THEN <<>>
    ELSE IF ValueAt(t, data, i) # {}
         THEN LET v == CHOOSE x \in ValueAt(t, data, i) : TRUE
                  n == CHOOSE m \in 1..Len(data) :
                          ~StartsWithUnderscore(data[m][1]) /\ MatchAt(t, Placeholder(data[m][1]), i)
              IN  v \o Substituted(t, data, i + Len(Placeholder(data[n][1])))
         ELSE <<t[i]>> \o Substituted(t, data, i + 1)

\* C19: format_message replaces every occurrence of {key} by the value for each
\* non-metadata key present in the data, and leaves every placeholder whose
\* name has no matching key (and all other text) verbatim in the output.
C19_PlaceholdersReplacedOthersVerbatim ==
    fmt.pc = "done" => fmt.out = Substituted(fmt.template, fmt.data, 1)

----------------------------------------------------------------------------
(* Claims about the stages of a run *)

\* the stage a run is in: pre-actions, extraction, the loop over the records,
\* the exception handler, the end
StageRank(pc) ==
    CASE pc = "setup" -> 1
      [] pc = "extract" -> 2
      [] pc \in {"classify", "store", "send"} -> 3
      [] pc = "except" -> 4
      [] OTHER -> 5

\* the record of this step's send_message call is in the table for its job
CallRecordPersisted(r) ==
    \E row \in extracted_data : row.job_id = ThisCall(r).job_id /\ row.hash = ThisCall(r).hash

\* C20 (as stated): within a run the stages occur in the order PreActions,
\* Extracting, Processing, Delivering, Completed|Failed and each stage completes
\* fully before the next starts: no message is delivered until every extracted
\* record of the run has been classified and persisted.
C20_DeliveryAfterAllProcessed ==
    [][\A r \in 1..Len(runs) :
          /\ r \in DOMAIN runs' => StageRank(runs'[r].pc) >= StageRank(runs[r].pc)
          /\ Sends(r) => \A k \in 1..Len(runs[r].all_data) : k <= runs[r].i]_vars

\* C20 (amended): within a run the pre-actions, the extraction, the loop over
\* the records and the completion occur in this order, and the records are
\* handled one after the other in list order; processing and delivery are
\* interleaved per record: the message of a record is delivered once that
\* record has been classified and persisted, before the next record is
\* classified.
C20_DeliveryAfterRecordProcessed ==
    [][\A r \in 1..Len(runs) :
          /\ r \in DOMAIN runs' => StageRank(runs'[r].pc) >= StageRank(runs[r].pc)
          /\ (r \in DOMAIN runs' /\ runs'[r].pc \notin {"done", "raised"}) =>
                 runs'[r].i \in {runs[r].i, runs[r].i + 1}
          /\ Sends(r) =>
                 /\ ThisCall(r) \in telegram'
                 /\ runs[r].i <= Len(runs[r].all_data)
                 /\ CallRecordPersisted(r)
                 /\ runs'[r].pc = "classify" => runs'[r].i = runs[r].i + 1]_vars

\* the first run has delivered the message of its first record and has its
\* second record still to classify
C20_Witness ==
    /\ Len(runs) = 1
    /\ runs[1].pc = "classify"
    /\ Len(runs[1].all_data) = 2
    /\ runs[1].i = 2
    /\ \E call \in telegram, row \in extracted_data :
          /\ call.job_id = runs[1].job_id
          /\ row.job_id = call.job_id
          /\ row.hash = call.hash

----------------------------------------------------------------------------
(* Claims about the paginator *)

\* the screenshot of the k-th capture of the call
Capture(k) == pag.all_data[k].screen

\* the k-th capture is near-identical to the capture before it
SimilarToPrevious(k) == k > 1 /\ ImagesSimilar(Capture(k - 1), Capture(k))

\* the number of captures up to the n-th, counted backwards from it, that are
\* each near-identical to the capture before
TrailingSame(n) == CHOOSE m \in 0..n : (\A k \in (n - m + 1)..n : SimilarToPrevious(k)) /\ (m = n \/ ~SimilarToPrevious(n - m))

\* the captures k-2, k-1 and k are three consecutive near-identical captures
ThreeSimilarCaptures(k) == k >= 3 /\ SimilarToPrevious(k - 1) /\ SimilarToPrevious(k)

\* C21 as stated: scroll_and_extract takes no further capture after the third
\* of three consecutive near-identical captures, and stops for "reached the
\* bottom" only after three such captures.
C21_StopsAfterThreeSimilarCaptures ==
    (pag.pc # "idle" /\ pag.mode = "scroll") =>
        /\ \A k \in 1..Len(pag.all_data) : ThreeSimilarCaptures(k) => k = Len(pag.all_data)
        /\ (pag.stop = "bottom") => ThreeSimilarCaptures(Len(pag.all_data))

\* C21 amended: scroll_and_extract stops for "reached the bottom" exactly when
\* three consecutive comparisons find a capture near-identical to the capture
\* before it, that is on the fourth of four captures in a row: it takes no
\* capture after that one, it does not stop for the bottom on fewer, and a
\* capture that is not near-identical to its predecessor resets the count.
C21_StopsAfterThreeSimilarComparisons ==
    (pag.pc # "idle" /\ pag.mode = "scroll") =>
        /\ \A k \in 1..Len(pag.all_data) : (TrailingSame(k) >= 3) => (k = Len(pag.all_data) /\ pag.stop = "bottom")
        /\ (pag.stop = "bottom") => (TrailingSame(Len(pag.all_data)) = 3 /\ pag.pc = "returned")
        /\ pag.consecutive_same = TrailingSame(Len(pag.all_data))

\* scroll_and_extract has stopped for the bottom after a capture that differed
\* from its predecessor reset the count
C21_Witness == pag.pc = "returned" /\ pag.mode = "scroll" /\ pag.stop = "bottom" /\ \E k \in 2..Len(pag.all_data) : ~SimilarToPrevious(k)

\* the page was unchanged after the click of each of the last three iterations
UnchangedThreeTimes == Len(pag.all_data) >= 3 /\ SimilarToPrevious(Len(pag.all_data) - 1) /\ SimilarToPrevious(Len(pag.all_data)) /\ ImagesSimilar(Capture(Len(pag.all_data)), pag.screen)

\* the loop of the call has run at most max_pages (max_scrolls) times and
\* collected at most that many records
WithinMax == Len(pag.all_data) <= pag.max /\ pag.count <= pag.max + 1

\* why a returned call stopped: the bound, a missing "next" control, or a page
\* that stayed unchanged three times in a row
StopReason ==
    (pag.pc = "returned") =>
        \/ pag.stop = "max" /\ Len(pag.all_data) = pag.max
        \/ pag.mode = "paginate" /\ pag.stop = "no_next"
        \/ pag.mode = "paginate" /\ pag.stop = "unchanged" /\ UnchangedThreeTimes
        \/ pag.mode = "scroll" /\ pag.stop = "bottom"

\* C22: paginate_and_extract and scroll_and_extract always terminate;
\* pagination stops when no next control is found or when the page is
\* unchanged after the click three times in a row, and every call stops after
\* at most max_pages (max_scrolls) iterations with at most that many records.
C22_AlwaysTerminates == [](WithinMax /\ StopReason) /\ <>(pag.pc = "returned")

\* paginate_and_extract has returned because the page stayed unchanged
C22_Witness == pag.pc = "returned" /\ pag.mode = "paginate" /\ pag.stop = "unchanged" /\ Len(pag.all_data) < pag.max

----------------------------------------------------------------------------
(* Claims about _deduplicate_text *)

\* value is exactly two identical halves: s+s with s not empty
IsRepeat(value) == value # <<>> /\ Len(value) % 2 = 0 /\ Take(value, Len(value) \div 2) = Drop(value, Len(value) \div 2)

\* C23: _deduplicate_text collapses every string that is exactly two
\* identical halves to one half, and returns every string that is not such a
\* repeat unchanged.
C23_RepeatCollapsedOthersUnchanged == (txt.pc = "returned") => (txt.result = IF IsRepeat(txt.value) THEN Take(txt.value, Len(txt.value) \div 2) ELSE txt.value)

----------------------------------------------------------------------------
(* Claims about the counters of a run and the progress reported *)

\* the records run r has taken from all_data so far: the one under the loop
\* index counts once the run is past its classification
Examined(r) == IF runs[r].pc = "classify" THEN runs[r].i - 1 ELSE runs[r].i

\* run r is inside the processing loop, between two of its steps
InLoop(r) == runs[r].pc \in {"classify", "store", "send"}

\* the counts GET /api/progress returns are those of run r
ProgressShows(r) == progress.items_sent = runs[r].sent_count /\ progress.items_duplicate = runs[r].dup_count

----------------------------------------------------------------------------
(* Claims about stores the table rejects and about repeated content *)

\* the send_message calls that delivered content data_hash for job job_id
Delivered(job_id, data_hash) == { call \in telegram : call.job_id = job_id /\ call.hash = data_hash /\ call.success }

\* C25: with deduplication enabled, the same content (job_id, hash) is sent to
\* the notification channel at most once under every interleaving of two runs
\* of the same job, including when both runs classify the record as new
\* before either of them stores it.
C25_SentAtMostOncePerContent == \A call \in telegram : jobs[call.job_id].enable_deduplication => Cardinality(Delivered(call.job_id, call.hash)) <= 1

\* run r makes its store step and stays inside the loop
Stores(r) == runs[r].pc = "store" /\ runs'[r].pc \in {"send", "classify"}

\* the store step of run r inserted a row
Inserted(r) == extracted_data' # extracted_data /\ runs'[r].record_id > 0

\* C26: in every run items_new counts the extracted_data rows the run actually
\* inserted: a store attempt rejected by the (job_id, hash) conflict (return
\* value -1) is not counted as new and is not sent.
C26_NewCountsInsertedRows == [][\A r \in 1..Len(runs) : Stores(r) => IF Inserted(r) THEN runs'[r].new_count = runs[r].new_count + 1 ELSE runs'[r].new_count = runs[r].new_count /\ runs'[r].pc # "send"]_vars

\* the positions of all_data run r has finished with
Processed(r) == 1..(runs[r].i - 1)

\* the record at position k of run r, as the loop handles it
ItemAt(r, k) == LoopData(Job(r), runs[r].all_data[k])

\* the processed positions that hold a record the loop does not skip as empty
NonEmptyItems(r) == { k \in Processed(r) : ~IsEmptyDataPoint(ItemAt(r, k)) }

\* the different contents among them
Contents(r) == { GenerateHash(ItemAt(r, k)) : k \in NonEmptyItems(r) }

\* no run of the job of run r began before r: the job has no history
FirstRunOfJob(r) == \A q \in 1..(r - 1) : runs[q].job_id # runs[r].job_id

\* the rows of job_id holding content data_hash
RowsOf(job_id, data_hash) == { row \in extracted_data : row.job_id = job_id /\ row.hash = data_hash }

\* the send_message calls made for content data_hash of job job_id
CallsFor(job_id, data_hash) == { call \in telegram : call.job_id = job_id /\ call.hash = data_hash }

\* C27: within a single run of a deduplication-enabled job, content the
\* extractor returns k > 1 times that is not yet in history is stored and
\* sent exactly once, for its first occurrence, and the other k-1 occurrences
\* are counted as duplicates.
C27_RepeatsWithinRunAreDuplicates ==
    \A r \in 1..Len(runs) :
        (Job(r).enable_deduplication /\ FirstRunOfJob(r) /\ runs[r].pc = "classify") =>
            /\ runs[r].new_count = Cardinality(Contents(r))
            /\ runs[r].dup_count = Cardinality(NonEmptyItems(r)) - Cardinality(Contents(r))
            /\ \A data_hash \in Contents(r) :
                  /\ Cardinality(RowsOf(runs[r].job_id, data_hash)) = 1
                  /\ Job(r).telegram => Cardinality(CallsFor(runs[r].job_id, data_hash)) = 1

\* the first run of a deduplication-enabled job has met the same content twice
C27_Witness == \E r \in 1..Len(runs) : Job(r).enable_deduplication /\ FirstRunOfJob(r) /\ runs[r].pc = "classify" /\ Cardinality(NonEmptyItems(r)) = 2 /\ Cardinality(Contents(r)) = 1 /\ runs[r].dup_count = 1

----------------------------------------------------------------------------
(* Claims about the DOM job's browser and about the scheduler *)

\* C28: whenever the extraction step of a DOM job runs, the browser tab being
\* read has been navigated to that job's configured URL during the same run,
\* also on a second run, or a run of a different job, of an engine whose DOM
\* extractor is already connected.
C28_ExtractionReadsJobUrl == nav.pc # "idle" => \A k \in 1..Len(nav.reads) : nav.reads[k].navigated /\ nav.reads[k].tab = nav.reads[k].url

\* C29: a scheduler tick executes a job only if that job is active in the
\* store at that time: after a job's active flag has been cleared, no later
\* scheduled run of that job takes place.
C29_TickOnlyIfActive == sch.pc # "idle" => \A k \in 1..Len(sch.ticks) : sch.ticks[k].active

----------------------------------------------------------------------------
(* Claims about the overall result of execute_actions *)

\* C30: execute_actions returns success = true only if every action it
\* executed succeeded: whenever some per-action result has success = false,
\* the overall result has success = false.
C30_SuccessOnlyIfAllSucceeded == (act.pc = "return" /\ ActionResult(act.results, act.failed).success) => \A k \in 1..Len(act.results) : act.results[k].success

====
